---- MODULE Spec2Model ----
(***************************************************************************)
(* Model of the CooldownUsable module                                      *)
(* (src/src/Parser/Core/Modules/CooldownUsable.js).                        *)
(*                                                                         *)
(* The module keeps one object, _currentCooldowns, that maps a spell id to *)
(* a record {start, expectedEnd, charges}; a key is present only while the *)
(* spell is on cooldown.  It reads the catalog (castEfficiency) and the    *)
(* clock (owner.currentTimestamp) and publishes notifications through      *)
(* owner.triggerEvent.                                                     *)
(***************************************************************************)
EXTENDS Integers, Sequences, FiniteSets, TLC

\* ------------------------------------------------------------------ bounds
MaxDuration == 2
MaxCharges == 3
MaxOverride == 1
MaxReduce == 2
MaxTime == 3
MaxBurst == 5
MaxStep == 2

\* Spell 1 is the spell under study; spell 2 is a second tracked spell.
Abilities == {1, 2}
\* A duration of 0 stands for "no duration" (undefined, null or 0): the code
\* tests durations with `||` and `!`, which treat all three alike.
Durations == 0..MaxDuration
Overrides == 0..MaxOverride
Amounts == 0..MaxReduce
Timestamps == 0..MaxTime

\* The catalog entries an ability can be configured with.
Configs == [duration : Durations, maxCharges : 0..MaxCharges]

\* End-to-end scenario of the specification: ability X (spell id 1) with
\* max charges 2 and cooldown duration 1000.
ScenarioConfig == [duration |-> 1000, maxCharges |-> 2]
ScenarioTimes == {0, 100, 1000, 1001, 2001, 2002}

VARIABLES
  currentCooldowns,  \* this._currentCooldowns: spell id -> record, keys = on cooldown
  currentTimestamp,  \* this.owner.currentTimestamp
  catalog,           \* this.castEfficiency: spell id -> [duration, maxCharges]
  last,              \* the last call made on the module and what it returned/published
  burst,             \* run of startCooldown calls on one spell at one timestamp
  scenario,          \* progress of the event stream along the end-to-end scenario
  started            \* spells whose startcooldown no finishcooldown has followed yet

vars == <<currentCooldowns, currentTimestamp, catalog, last, burst, scenario, started>>

\* ------------------------------------------------------------- collaborators
getMaxCharges(spellId) == catalog[spellId].maxCharges

getExpectedCooldownDuration(spellId) == catalog[spellId].duration

\* `delete obj[key]`
Delete(c, spellId) == [x \in (DOMAIN c) \ {spellId} |-> c[x]]

\* owner.triggerEvent(name, spellId)
Note(name, spellId) == <<name, spellId>>

\* What a call leaves behind: the store, the notifications it published in
\* order, whether it threw, and how often startCooldown took the
\* "was cast while already marked as on cooldown" branch.
Outcome(c, notes, thrown, retries) ==
  [cd |-> c, notes |-> notes, thrown |-> thrown, retries |-> retries]

\* ------------------------------------------------------------------ queries
isOnCooldown(c, spellId) == spellId \in DOMAIN c

\* Variant: `>=` in place of `>`.
isAvailableStrictMutant(c, spellId) ==
  IF isOnCooldown(c, spellId)
  THEN getMaxCharges(spellId) >= c[spellId].charges
  ELSE TRUE

\* Variant: available taken to be the opposite of on cooldown.
isAvailableNegationMutant(c, spellId) == ~isOnCooldown(c, spellId)

isAvailable(c, spellId) ==
  IF isOnCooldown(c, spellId)
  THEN IF getMaxCharges(spellId) > c[spellId].charges THEN TRUE ELSE FALSE
  ELSE TRUE

\* Variant: measures from the record's start instead of the clock.
cooldownRemainingFromStartMutant(c, now, spellId) ==
  IF ~isOnCooldown(c, spellId)
  THEN <<>>
  ELSE <<c[spellId].expectedEnd - c[spellId].start>>

\* null is <<>>, a number n is <<n>>
cooldownRemaining(c, now, spellId) ==
  IF ~isOnCooldown(c, spellId)
  THEN <<>>
  ELSE <<c[spellId].expectedEnd - now>>

\* --------------------------------------------------------------- operations
\* Variant: the assignment to expectedEnd (and its notification) left out.
refreshCooldownKeepMutant(c, now, spellId, overrideDurationMs) ==
  IF ~isOnCooldown(c, spellId)
  THEN Outcome(c, <<>>, TRUE, 0)
  ELSE Outcome(c, <<>>, FALSE, 0)


\* Variant: the refresh also restarts the record's start.
refreshCooldownRestartMutant(c, now, spellId, overrideDurationMs) ==
  IF ~isOnCooldown(c, spellId)
  THEN Outcome(c, <<>>, TRUE, 0)
  ELSE LET expectedCooldownDuration ==
             IF overrideDurationMs # 0 THEN overrideDurationMs
             ELSE getExpectedCooldownDuration(spellId)
       IN  IF expectedCooldownDuration = 0
           THEN Outcome(c, <<>>, FALSE, 0)
           ELSE Outcome([c EXCEPT ![spellId].expectedEnd = now + expectedCooldownDuration,
                                  ![spellId].start = now],
                        <<Note("refreshcooldown", spellId)>>, FALSE, 0)

refreshCooldown(c, now, spellId, overrideDurationMs) ==
  IF ~isOnCooldown(c, spellId)
  THEN Outcome(c, <<>>, TRUE, 0)
  ELSE LET expectedCooldownDuration ==
             IF overrideDurationMs # 0 THEN overrideDurationMs
             ELSE getExpectedCooldownDuration(spellId)
       IN  IF expectedCooldownDuration = 0
           THEN Outcome(c, <<>>, FALSE, 0)
           ELSE Outcome([c EXCEPT ![spellId].expectedEnd = now + expectedCooldownDuration],
                        <<Note("refreshcooldown", spellId)>>, FALSE, 0)

\* Variant: every charge is reset, as if resetAllCharges were always set.
finishCooldownAllMutant(c, now, spellId, resetAllCharges) ==
  IF ~isOnCooldown(c, spellId)
  THEN Outcome(c, <<>>, TRUE, 0)
  ELSE Outcome(Delete(c, spellId), <<Note("finishcooldown", spellId)>>, FALSE, 0)

\* Variant: the `charges === 1` test left out, so the last charge is
\* decremented instead of deleting the record.
finishCooldownNoDeleteMutant(c, now, spellId, resetAllCharges) ==
  IF ~isOnCooldown(c, spellId)
  THEN Outcome(c, <<>>, TRUE, 0)
  ELSE IF resetAllCharges
       THEN Outcome(Delete(c, spellId), <<Note("finishcooldown", spellId)>>, FALSE, 0)
       ELSE LET r == refreshCooldown([c EXCEPT ![spellId].charges = @ - 1],
                                     now, spellId, 0)
            IN  Outcome(r.cd, r.notes \o <<Note("finishcooldown", spellId)>>, FALSE, 0)


\* Variant: the isOnCooldown check left out; `delete` of a missing key is
\* silent, so the call goes on to publish finishcooldown.
finishCooldownNoCheckMutant(c, now, spellId, resetAllCharges) ==
  IF ~isOnCooldown(c, spellId) \/ c[spellId].charges = 1 \/ resetAllCharges
  THEN Outcome(Delete(c, spellId), <<Note("finishcooldown", spellId)>>, FALSE, 0)
  ELSE LET r == refreshCooldown([c EXCEPT ![spellId].charges = @ - 1],
                                now, spellId, 0)
       IN  Outcome(r.cd, r.notes \o <<Note("finishcooldown", spellId)>>, FALSE, 0)


\* Variant: resetAllCharges empties the whole store.
finishCooldownClearAllMutant(c, now, spellId, resetAllCharges) ==
  IF ~isOnCooldown(c, spellId)
  THEN Outcome(c, <<>>, TRUE, 0)
  ELSE IF resetAllCharges
       THEN Outcome([x \in {} |-> 0], <<Note("finishcooldown", spellId)>>, FALSE, 0)
       ELSE IF c[spellId].charges = 1
            THEN Outcome(Delete(c, spellId), <<Note("finishcooldown", spellId)>>,
                         FALSE, 0)
            ELSE LET r == refreshCooldown([c EXCEPT ![spellId].charges = @ - 1],
                                          now, spellId, 0)
                 IN  Outcome(r.cd, r.notes \o <<Note("finishcooldown", spellId)>>,
                             FALSE, 0)


\* Variant: deleting the record publishes nothing.
finishCooldownQuietMutant(c, now, spellId, resetAllCharges) ==
  IF ~isOnCooldown(c, spellId)
  THEN Outcome(c, <<>>, TRUE, 0)
  ELSE IF c[spellId].charges = 1 \/ resetAllCharges
       THEN Outcome(Delete(c, spellId), <<>>, FALSE, 0)
       ELSE LET r == refreshCooldown([c EXCEPT ![spellId].charges = @ - 1],
                                     now, spellId, 0)
            IN  Outcome(r.cd, r.notes \o <<Note("finishcooldown", spellId)>>,
                        FALSE, 0)

finishCooldown(c, now, spellId, resetAllCharges) ==
  IF ~isOnCooldown(c, spellId)
  THEN Outcome(c, <<>>, TRUE, 0)
  ELSE IF c[spellId].charges = 1 \/ resetAllCharges
       THEN Outcome(Delete(c, spellId), <<Note("finishcooldown", spellId)>>, FALSE, 0)
       ELSE LET r == refreshCooldown([c EXCEPT ![spellId].charges = @ - 1],
                                     now, spellId, 0)
            IN  IF r.thrown
                THEN r
                ELSE Outcome(r.cd, r.notes \o <<Note("finishcooldown", spellId)>>,
                             FALSE, 0)

RECURSIVE startCooldown(_, _, _, _)

\* Variant: using another charge restarts the record (new start and
\* expectedEnd) and publishes startcooldown.
startCooldownRestartMutant(c, now, spellId, overrideDurationMs) ==
  LET expectedCooldownDuration ==
        IF overrideDurationMs # 0 THEN overrideDurationMs
        ELSE getExpectedCooldownDuration(spellId)
  IN  IF expectedCooldownDuration = 0
      THEN Outcome(c, <<>>, FALSE, 0)
      ELSE IF ~isOnCooldown(c, spellId) \/ isAvailable(c, spellId)
           THEN Outcome([x \in (DOMAIN c) \cup {spellId} |->
                           IF x = spellId
                           THEN [start |-> now,
                                 expectedEnd |-> now + expectedCooldownDuration,
                                 charges |-> IF isOnCooldown(c, spellId)
                                             THEN c[spellId].charges + 1 ELSE 1]
                           ELSE c[x]],
                        <<Note("startcooldown", spellId)>>, FALSE, 0)
           ELSE LET f == finishCooldown(c, now, spellId, FALSE)
                    s == startCooldown(f.cd, now, spellId, overrideDurationMs)
                IN  Outcome(s.cd, f.notes \o s.notes, s.thrown, s.retries + 1)


\* Variant: the duration is resolved only after the saturated case has been
\* handled.
startCooldownLateCheckMutant(c, now, spellId, overrideDurationMs) ==
  LET expectedCooldownDuration ==
        IF overrideDurationMs # 0 THEN overrideDurationMs
        ELSE getExpectedCooldownDuration(spellId)
  IN  IF isOnCooldown(c, spellId) /\ ~isAvailable(c, spellId)
      THEN LET f == finishCooldown(c, now, spellId, FALSE)
               s == startCooldown(f.cd, now, spellId, overrideDurationMs)
           IN  Outcome(s.cd, f.notes \o s.notes, s.thrown, s.retries + 1)
      ELSE IF expectedCooldownDuration = 0
           THEN Outcome(c, <<>>, FALSE, 0)
           ELSE IF ~isOnCooldown(c, spellId)
                THEN Outcome([x \in (DOMAIN c) \cup {spellId} |->
                                IF x = spellId
                                THEN [start |-> now,
                                      expectedEnd |-> now + expectedCooldownDuration,
                                      charges |-> 1]
                                ELSE c[x]],
                             <<Note("startcooldown", spellId)>>, FALSE, 0)
                ELSE Outcome([c EXCEPT ![spellId].charges = @ + 1],
                             <<Note("startcooldowncharge", spellId)>>, FALSE, 0)

\* Variant: using another charge adds 2 to charges.
startCooldownTwoChargesMutant(c, now, spellId, overrideDurationMs) ==
  LET expectedCooldownDuration ==
        IF overrideDurationMs # 0 THEN overrideDurationMs
        ELSE getExpectedCooldownDuration(spellId)
  IN  IF expectedCooldownDuration = 0
      THEN Outcome(c, <<>>, FALSE, 0)
      ELSE IF ~isOnCooldown(c, spellId)
           THEN Outcome([x \in (DOMAIN c) \cup {spellId} |->
                           IF x = spellId
                           THEN [start |-> now,
                                 expectedEnd |-> now + expectedCooldownDuration,
                                 charges |-> 1]
                           ELSE c[x]],
                        <<Note("startcooldown", spellId)>>, FALSE, 0)
           ELSE IF isAvailable(c, spellId)
                THEN Outcome([c EXCEPT ![spellId].charges = @ + 2],
                             <<Note("startcooldowncharge", spellId)>>, FALSE, 0)
                ELSE LET f == finishCooldown(c, now, spellId, FALSE)
                         s == startCooldown(f.cd, now, spellId, overrideDurationMs)
                     IN  Outcome(s.cd, f.notes \o s.notes, s.thrown, s.retries + 1)


\* Variant: starting a cooldown starts it for every spell without a record.
startCooldownSharedMutant(c, now, spellId, overrideDurationMs) ==
  LET expectedCooldownDuration ==
        IF overrideDurationMs # 0 THEN overrideDurationMs
        ELSE getExpectedCooldownDuration(spellId)
  IN  IF expectedCooldownDuration = 0
      THEN Outcome(c, <<>>, FALSE, 0)
      ELSE IF ~isOnCooldown(c, spellId)
           THEN Outcome([x \in Abilities |->
                           IF x \in DOMAIN c
                           THEN c[x]
                           ELSE [start |-> now,
                                 expectedEnd |-> now + expectedCooldownDuration,
                                 charges |-> 1]],
                        <<Note("startcooldown", spellId)>>, FALSE, 0)
           ELSE IF isAvailable(c, spellId)
                THEN Outcome([c EXCEPT ![spellId].charges = @ + 1],
                             <<Note("startcooldowncharge", spellId)>>, FALSE, 0)
                ELSE LET f == finishCooldown(c, now, spellId, FALSE)
                         s == startCooldown(f.cd, now, spellId, overrideDurationMs)
                     IN  Outcome(s.cd, f.notes \o s.notes, s.thrown, s.retries + 1)

startCooldown(c, now, spellId, overrideDurationMs) ==
  LET expectedCooldownDuration ==
        IF overrideDurationMs # 0 THEN overrideDurationMs
        ELSE getExpectedCooldownDuration(spellId)
  IN  IF expectedCooldownDuration = 0
      THEN Outcome(c, <<>>, FALSE, 0)
      ELSE IF ~isOnCooldown(c, spellId)
           THEN Outcome([x \in (DOMAIN c) \cup {spellId} |->
                           IF x = spellId
                           THEN [start |-> now,
                                 expectedEnd |-> now + expectedCooldownDuration,
                                 charges |-> 1]
                           ELSE c[x]],
                        <<Note("startcooldown", spellId)>>, FALSE, 0)
           ELSE IF isAvailable(c, spellId)
                THEN Outcome([c EXCEPT ![spellId].charges = @ + 1],
                             <<Note("startcooldowncharge", spellId)>>, FALSE, 0)
                ELSE LET f == finishCooldown(c, now, spellId, FALSE)
                     IN  IF f.thrown
                         THEN Outcome(f.cd, f.notes, TRUE, 1)
                         ELSE LET s == startCooldown(f.cd, now, spellId,
                                                     overrideDurationMs)
                              IN  Outcome(s.cd, f.notes \o s.notes, s.thrown,
                                          s.retries + 1)

\* reduceCooldown returns null or a number: the outcome carries it as ret.
\* Variant: `<=` in place of `<`.
reduceCooldownInclusiveMutant(c, now, spellId, durationMs) ==
  IF ~isOnCooldown(c, spellId)
  THEN [out |-> Outcome(c, <<>>, FALSE, 0), ret |-> <<>>]
  ELSE LET remaining == cooldownRemaining(c, now, spellId)[1]
       IN  IF remaining <= durationMs
           THEN [out |-> finishCooldown(c, now, spellId, FALSE), ret |-> <<remaining>>]
           ELSE [out |-> Outcome([c EXCEPT ![spellId].expectedEnd = @ - durationMs],
                                 <<>>, FALSE, 0),
                 ret |-> <<durationMs>>]


\* Variant: the finishing branch returns durationMs.
reduceCooldownReturnsAmountMutant(c, now, spellId, durationMs) ==
  IF ~isOnCooldown(c, spellId)
  THEN [out |-> Outcome(c, <<>>, FALSE, 0), ret |-> <<>>]
  ELSE LET remaining == cooldownRemaining(c, now, spellId)[1]
       IN  IF remaining < durationMs
           THEN [out |-> finishCooldown(c, now, spellId, FALSE), ret |-> <<durationMs>>]
           ELSE [out |-> Outcome([c EXCEPT ![spellId].expectedEnd = @ - durationMs],
                                 <<>>, FALSE, 0),
                 ret |-> <<durationMs>>]

reduceCooldown(c, now, spellId, durationMs) ==
  IF ~isOnCooldown(c, spellId)
  THEN [out |-> Outcome(c, <<>>, FALSE, 0), ret |-> <<>>]
  ELSE LET remaining == cooldownRemaining(c, now, spellId)[1]
       IN  IF remaining < durationMs
           THEN [out |-> finishCooldown(c, now, spellId, FALSE), ret |-> <<remaining>>]
           ELSE [out |-> Outcome([c EXCEPT ![spellId].expectedEnd = @ - durationMs],
                                 <<>>, FALSE, 0),
                 ret |-> <<durationMs>>]

on_byPlayer_cast(c, now, spellId) == startCooldown(c, now, spellId, 0)

\* The sweep of on_event: Object.keys(...) is taken once, in ascending order
\* of the integer keys, and finishCooldown is called on each key whose record
\* has expectedEnd < timestamp.  A throw ends the loop and keeps what the
\* earlier iterations did.
Min(S) == CHOOSE x \in S : \A y \in S : x <= y

\* Variant: `>=` in place of `>`.
expiredInclusiveMutant(activeCooldown, timestamp) == timestamp >= activeCooldown.expectedEnd


\* Variant: the comparison is turned round.
expiredReversedMutant(activeCooldown, timestamp) == timestamp < activeCooldown.expectedEnd

expired(activeCooldown, timestamp) == timestamp > activeCooldown.expectedEnd

RECURSIVE sweep(_, _, _, _)
sweep(acc, keys, now, timestamp) ==
  IF keys = {} \/ acc.thrown
  THEN acc
  ELSE LET spellId == Min(keys)
       IN  IF ~isOnCooldown(acc.cd, spellId)
           THEN Outcome(acc.cd, acc.notes, TRUE, 0)
           ELSE IF expired(acc.cd[spellId], timestamp)
                THEN LET f == finishCooldown(acc.cd, now, spellId, FALSE)
                     IN  sweep(Outcome(f.cd, acc.notes \o f.notes, f.thrown, 0),
                               keys \ {spellId}, now, timestamp)
                ELSE sweep(acc, keys \ {spellId}, now, timestamp)

\* Variant: the loop runs over every known spell instead of the keys of the
\* store.
on_eventAllSpellsMutant(c, now, timestamp) ==
  LET fin(acc, spellId) ==
        LET f == finishCooldown(acc.cd, now, spellId, FALSE)
        IN  Outcome(f.cd, acc.notes \o f.notes, acc.thrown \/ f.thrown, 0)
      RECURSIVE all(_, _)
      all(acc, keys) ==
        IF keys = {} THEN acc
        ELSE IF Min(keys) \in DOMAIN acc.cd /\ ~expired(acc.cd[Min(keys)], timestamp)
             THEN all(acc, keys \ {Min(keys)})
             ELSE all(fin(acc, Min(keys)), keys \ {Min(keys)})
  IN  all(Outcome(c, <<>>, FALSE, 0), Abilities)


\* Variant: an expired spell is finished with resetAllCharges.
on_eventResetAllMutant(c, now, timestamp) ==
  LET RECURSIVE all(_, _)
      all(acc, keys) ==
        IF keys = {} THEN acc
        ELSE IF expired(acc.cd[Min(keys)], timestamp)
             THEN LET f == finishCooldown(acc.cd, now, Min(keys), TRUE)
                  IN  all(Outcome(f.cd, acc.notes \o f.notes, f.thrown, 0),
                          keys \ {Min(keys)})
             ELSE all(acc, keys \ {Min(keys)})
  IN  all(Outcome(c, <<>>, FALSE, 0), DOMAIN c)

on_event(c, now, timestamp) ==
  sweep(Outcome(c, <<>>, FALSE, 0), DOMAIN c, now, timestamp)

\* -------------------------------------------------------------------- state
NoCooldowns == [x \in {} |-> 0]

\* The record of spellId before a call, <<>> when it had none.
RecordOf(c, spellId) == IF spellId \in DOMAIN c THEN <<c[spellId]>> ELSE <<>>

\* The last call: its name and arguments, the store it found (pre), what it
\* returned (ret), published (notes) and whether it threw.
Call(op, spellId, arg, at, out, ret) ==
  [op |-> op, spellId |-> spellId, arg |-> arg,
   pre |-> currentCooldowns,
   ret |-> ret, notes |-> out.notes, thrown |-> out.thrown,
   retries |-> out.retries]

NoCall ==
  [op |-> "none", spellId |-> 0, arg |-> 0, pre |-> NoCooldowns, ret |-> <<>>,
   notes |-> <<>>, thrown |-> FALSE, retries |-> 0]

NoBurst == [spellId |-> 0, n |-> 0]

\* A run of startCooldown calls on one spell: it begins with a call that finds
\* the spell not on cooldown and goes on while the next call is again a
\* startCooldown of the same spell, with a duration, at the same timestamp.
BurstAfter(spellId, overrideDurationMs, at) ==
  IF overrideDurationMs = 0 /\ getExpectedCooldownDuration(spellId) = 0
  THEN NoBurst
  ELSE IF ~isOnCooldown(currentCooldowns, spellId)
       THEN [spellId |-> spellId, n |-> 1]
       ELSE IF /\ burst.spellId = spellId
               /\ burst.n >= 1
               /\ burst.n < MaxBurst
               /\ at = currentTimestamp
            THEN [spellId |-> spellId, n |-> burst.n + 1]
            ELSE NoBurst

\* Stage of the end-to-end scenario the event stream has followed so far:
\* 0 nothing fed, 1 after cast X at 0, 2 after cast X at 100, 3 after the
\* generic event at 1001, -1 once the stream has left the scenario.
ScenarioAfter(op, spellId, at) ==
  IF scenario = 0 /\ op = "onCast" /\ spellId = 1 /\ at = 0 THEN 1
  ELSE IF scenario = 1 /\ op = "onCast" /\ spellId = 1 /\ at = 100 THEN 2
  ELSE IF scenario = 2 /\ op = "onAnyEvent" /\ at = 1001 THEN 3
  ELSE -1


\* The notification stream read one notification at a time: a startcooldown
\* of a spell opens it, a finishcooldown of it closes it.
RECURSIVE StartedAfter(_, _)
StartedAfter(open, notes) ==
  IF notes = <<>>
  THEN open
  ELSE LET note == Head(notes)
       IN  StartedAfter(IF note[1] = "startcooldown" THEN open \cup {note[2]}
                        ELSE IF note[1] = "finishcooldown" THEN open \ {note[2]}
                        ELSE open,
                        Tail(notes))

\* Spell 1 takes every configuration; spell 2 is a plain one-charge spell.
OtherConfig == [duration |-> 1, maxCharges |-> 1]

Catalogs == {f \in [Abilities -> Configs] : f[2] = OtherConfig}

Init ==
  /\ currentCooldowns = NoCooldowns
  /\ currentTimestamp = 0
  /\ catalog \in Catalogs
  /\ last = NoCall
  /\ burst = NoBurst
  /\ scenario = 0
  /\ started = {}

\* ------------------------------------------------------------------ actions
Query(op, spellId, ret) ==
  /\ last' = Call(op, spellId, 0, currentTimestamp, Outcome(currentCooldowns, <<>>, FALSE, 0), ret)
  /\ burst' = NoBurst
  /\ scenario' = ScenarioAfter(op, spellId, currentTimestamp)
  /\ UNCHANGED <<currentCooldowns, currentTimestamp, started>>

CallIsAvailable ==
  \E spellId \in Abilities :
    /\ Query("isAvailable", spellId, <<isAvailable(currentCooldowns, spellId)>>)
    /\ UNCHANGED catalog

CallIsOnCooldown ==
  \E spellId \in Abilities :
    /\ Query("isOnCooldown", spellId, <<isOnCooldown(currentCooldowns, spellId)>>)
    /\ UNCHANGED catalog

CallCooldownRemaining ==
  \E spellId \in Abilities :
    /\ Query("cooldownRemaining", spellId,
             cooldownRemaining(currentCooldowns, currentTimestamp, spellId))
    /\ UNCHANGED catalog

\* A call at timestamp `at` (the owner's clock when the call runs).
Apply(op, spellId, arg, at, out, ret, b) ==
  /\ currentCooldowns' = out.cd
  /\ currentTimestamp' = at
  /\ last' = Call(op, spellId, arg, at, out, ret)
  /\ burst' = b
  /\ scenario' = ScenarioAfter(op, spellId, at)
  /\ started' = StartedAfter(started, out.notes)

CallStartCooldown ==
  \E spellId \in Abilities, overrideDurationMs \in Overrides :
    /\ Apply("startCooldown", spellId, overrideDurationMs, currentTimestamp,
             startCooldown(currentCooldowns, currentTimestamp, spellId, overrideDurationMs),
             <<>>, BurstAfter(spellId, overrideDurationMs, currentTimestamp))
    /\ UNCHANGED catalog

CallFinishCooldown ==
  \E spellId \in Abilities, resetAllCharges \in BOOLEAN :
    /\ Apply("finishCooldown", spellId, IF resetAllCharges THEN 1 ELSE 0, currentTimestamp,
             finishCooldown(currentCooldowns, currentTimestamp, spellId, resetAllCharges),
             <<>>, NoBurst)
    /\ UNCHANGED catalog

CallRefreshCooldown ==
  \E spellId \in Abilities, overrideDurationMs \in Overrides :
    /\ Apply("refreshCooldown", spellId, overrideDurationMs, currentTimestamp,
             refreshCooldown(currentCooldowns, currentTimestamp, spellId, overrideDurationMs),
             <<>>, NoBurst)
    /\ UNCHANGED catalog

CallReduceCooldown ==
  \E spellId \in Abilities, durationMs \in Amounts :
    LET r == reduceCooldown(currentCooldowns, currentTimestamp, spellId, durationMs)
    IN  /\ Apply("reduceCooldown", spellId, durationMs, currentTimestamp, r.out, r.ret,
                 NoBurst)
        /\ UNCHANGED catalog

\* A cast event of the stream: the owner moves its clock to the event's
\* timestamp and hands the event to on_byPlayer_cast.
OnCast(spellId, timestamp) ==
  /\ timestamp >= currentTimestamp
  /\ Apply("onCast", spellId, 0, timestamp,
           on_byPlayer_cast(currentCooldowns, timestamp, spellId),
           <<>>, BurstAfter(spellId, 0, timestamp))
  /\ UNCHANGED catalog

\* Any event of the stream: the owner moves its clock to the event's
\* timestamp and hands the event to on_event.
OnAnyEvent(timestamp) ==
  /\ timestamp >= currentTimestamp
  /\ Apply("onAnyEvent", 0, 0, timestamp,
           on_event(currentCooldowns, timestamp, timestamp), <<>>, NoBurst)
  /\ UNCHANGED catalog

\* on_event of a custom event, which has no event attribute: returns at once.
OnCustomEvent ==
  /\ Apply("onCustomEvent", 0, 0, currentTimestamp,
           Outcome(currentCooldowns, <<>>, FALSE, 0), <<>>, NoBurst)
  /\ UNCHANGED catalog

CastEvent == \E spellId \in Abilities, timestamp \in Timestamps : OnCast(spellId, timestamp)

AnyEvent == \E timestamp \in Timestamps : OnAnyEvent(timestamp)

Next ==
  \/ CallIsAvailable
  \/ CallIsOnCooldown
  \/ CallCooldownRemaining
  \/ CallStartCooldown
  \/ CallFinishCooldown
  \/ CallRefreshCooldown
  \/ CallReduceCooldown
  \/ CastEvent
  \/ AnyEvent
  \/ OnCustomEvent

Spec == Init /\ [][Next]_vars

\* The replay driver alone: the stream of cast events and generic events,
\* in non-decreasing timestamp order, with no other caller of the module.
NextReplay ==
  \/ CastEvent
  \/ AnyEvent
  \/ OnCustomEvent

SpecReplay == Init /\ [][NextReplay]_vars

\* The catalog and the timestamps of the end-to-end scenario.
InitScenario ==
  /\ currentCooldowns = NoCooldowns
  /\ currentTimestamp = 0
  /\ catalog = [spellId \in Abilities |-> IF spellId = 1 THEN ScenarioConfig ELSE OtherConfig]
  /\ last = NoCall
  /\ burst = NoBurst
  /\ scenario = 0
  /\ started = {}

ScenarioCastEvent ==
  \E spellId \in Abilities, timestamp \in ScenarioTimes : OnCast(spellId, timestamp)

ScenarioAnyEvent == \E timestamp \in ScenarioTimes : OnAnyEvent(timestamp)

NextScenario ==
  \/ ScenarioCastEvent
  \/ ScenarioAnyEvent

SpecScenario == InitScenario /\ [][NextScenario]_vars


\* The spells that no caller ever passes to startCooldown and that are
\* never cast.
UnstartedAbilities == {2}

\* Every caller and every event, except startCooldown and casts of the
\* unstarted spells.
NextNeverStarted ==
  \/ CallIsAvailable
  \/ CallIsOnCooldown
  \/ CallCooldownRemaining
  \/ (CallStartCooldown /\ last'.spellId \notin UnstartedAbilities)
  \/ CallFinishCooldown
  \/ CallRefreshCooldown
  \/ CallReduceCooldown
  \/ (CastEvent /\ last'.spellId \notin UnstartedAbilities)
  \/ AnyEvent
  \/ OnCustomEvent

SpecNeverStarted == Init /\ [][NextNeverStarted]_vars


\* The stream once the casts are over: no cast and no other caller from the
\* first event past MaxTime on, only events with strictly increasing
\* timestamps, which keep arriving until every cooldown armed before can
\* have run out charge by charge.
DrainHorizon ==
  MaxTime + MaxDuration + MaxOverride + MaxStep
    + (MaxCharges - 1) * (MaxDuration + MaxStep)

Draining == currentTimestamp > MaxTime

DrainEvent ==
  \E step \in 1..MaxStep :
    /\ currentTimestamp + step <= DrainHorizon
    /\ OnAnyEvent(currentTimestamp + step)

NextDrain ==
  \/ (~Draining /\ CallStartCooldown)
  \/ (~Draining /\ CastEvent)
  \/ (~Draining /\ AnyEvent)
  \/ DrainEvent

\* An event with a later timestamp arrives: the owner's clock moves on.
LaterEventArrives ==
  /\ currentTimestamp' \in (currentTimestamp + 1)..(currentTimestamp + MaxStep)
  /\ currentTimestamp' <= DrainHorizon

\* Events with strictly increasing timestamps keep arriving.
SpecDrain == Init /\ [][NextDrain]_vars /\ WF_currentTimestamp(LaterEventArrives)

\* ------------------------------------------------------------------- claims
\* Helpers of the claims: the call just made, read from `last`.
IsStart == last.op \in {"startCooldown", "onCast"}

\* The duration the last startCooldown resolved (0: none).
ResolvedDuration ==
  IF last.arg # 0 THEN last.arg ELSE getExpectedCooldownDuration(last.spellId)

\* The last startCooldown found its spell on cooldown with no charge left.
FoundSaturated ==
  /\ IsStart
  /\ ResolvedDuration # 0
  /\ last.spellId \in DOMAIN last.pre
  /\ ~(getMaxCharges(last.spellId) > last.pre[last.spellId].charges)

FreshRecord ==
  [start |-> currentTimestamp,
   expectedEnd |-> currentTimestamp + ResolvedDuration,
   charges |-> 1]

Finished(spellId) == Note("finishcooldown", spellId)

Published(note) == \E i \in 1..Len(last.notes) : last.notes[i] = note

\* C1 as stated: a startCooldown that finds the spell saturated ends, for
\* every max charge count M >= 1, with a fresh record (charges = 1,
\* start = now, expectedEnd = now + duration).
C1_FreshAfterRecovery ==
  (FoundSaturated /\ getMaxCharges(last.spellId) >= 1)
    => /\ last.spellId \in DOMAIN currentCooldowns
       /\ currentCooldowns[last.spellId] = FreshRecord

\* C1 amended: the recovery finishes ONE charge before the retry.  With
\* M = 1 the call ends with a fresh record; with M >= 2 the record keeps its
\* start, ends with charges = M again, and its expectedEnd is re-armed to
\* now + catalog duration (left as it was when the catalog has no duration).
C1_OneChargeRecovery ==
  (FoundSaturated /\ getMaxCharges(last.spellId) >= 1)
    => /\ last.spellId \in DOMAIN currentCooldowns
       /\ last.retries = 1
       /\ LET M == getMaxCharges(last.spellId)
              D == getExpectedCooldownDuration(last.spellId)
              old == last.pre[last.spellId]
              new == currentCooldowns[last.spellId]
          IN  IF M = 1
              THEN new = FreshRecord
              ELSE /\ new.charges = M
                   /\ new.start = old.start
                   /\ new.expectedEnd =
                        IF D # 0 THEN currentTimestamp + D ELSE old.expectedEnd

C1_Witness ==
  /\ FoundSaturated
  /\ getMaxCharges(last.spellId) >= 2
  /\ last.pre[last.spellId].start < currentTimestamp
  /\ currentCooldowns[last.spellId].charges = getMaxCharges(last.spellId)

\* C2: N consecutive startCooldown calls at one timestamp, starting from a
\* spell that is not on cooldown and has M >= 1 max charges, leave
\* charges = min(N, M); calls 1..M do not take the recovery path and call
\* M + 1 does.
C2_BurstCharges ==
  (burst.n >= 1 /\ getMaxCharges(burst.spellId) >= 1)
    => LET M == getMaxCharges(burst.spellId)
       IN  /\ burst.spellId \in DOMAIN currentCooldowns
           /\ currentCooldowns[burst.spellId].charges
                = (IF burst.n < M THEN burst.n ELSE M)
           /\ (burst.n <= M => last.retries = 0)
           /\ (burst.n = M + 1 => last.retries >= 1)

C2_Witness ==
  /\ burst.n >= 1
  /\ burst.n = getMaxCharges(burst.spellId) + 1
  /\ getMaxCharges(burst.spellId) >= 2
  /\ last.retries >= 1

\* The last call was startCooldown with no override (or a cast) on a spell
\* whose catalog duration is D > 0.
StartedPlain ==
  /\ IsStart
  /\ last.arg = 0
  /\ getExpectedCooldownDuration(last.spellId) # 0

\* The last startCooldown found its spell on cooldown with a charge to spare.
FoundSpare ==
  /\ IsStart
  /\ last.spellId \in DOMAIN last.pre
  /\ getMaxCharges(last.spellId) > last.pre[last.spellId].charges

\* C3 as stated: after startCooldown(A) at T with no override and catalog
\* duration D, in every prior state of A, isOnCooldown(A) holds and
\* cooldownRemaining(A) evaluated at T is D.
C3_RemainingIsDuration ==
  StartedPlain
    => /\ isOnCooldown(currentCooldowns, last.spellId)
       /\ cooldownRemaining(currentCooldowns, currentTimestamp, last.spellId)
            = <<getExpectedCooldownDuration(last.spellId)>>

\* While the record of a spell is left as it is, cooldownRemaining goes down
\* by exactly the logical time that passes.
RemainingFollowsClock ==
  \A spellId \in Abilities :
    (/\ isOnCooldown(currentCooldowns, spellId)
     /\ isOnCooldown(currentCooldowns', spellId)
     /\ currentCooldowns'[spellId] = currentCooldowns[spellId])
      => cooldownRemaining(currentCooldowns', currentTimestamp', spellId)[1]
           = cooldownRemaining(currentCooldowns, currentTimestamp, spellId)[1]
               - (currentTimestamp' - currentTimestamp)

\* C3 amended: after such a call isOnCooldown(A) holds; cooldownRemaining(A)
\* at T is D when A was not on cooldown or was saturated, and is the old
\* expectedEnd - T (the timer of the oldest charge is untouched) when A was on
\* cooldown with a spare charge; afterwards cooldownRemaining(A) goes down by
\* exactly the elapsed logical time while the record is not modified.
C3_RemainingAfterStart ==
  /\ [](StartedPlain
          => /\ isOnCooldown(currentCooldowns, last.spellId)
             /\ cooldownRemaining(currentCooldowns, currentTimestamp, last.spellId)
                  = IF FoundSpare
                    THEN <<last.pre[last.spellId].expectedEnd - currentTimestamp>>
                    ELSE <<getExpectedCooldownDuration(last.spellId)>>)
  /\ [][RemainingFollowsClock]_vars

C3_Witness ==
  /\ StartedPlain
  /\ FoundSpare
  /\ cooldownRemaining(currentCooldowns, currentTimestamp, last.spellId)
       = <<last.pre[last.spellId].expectedEnd - currentTimestamp>>
  /\ cooldownRemaining(currentCooldowns, currentTimestamp, last.spellId)
       # <<getExpectedCooldownDuration(last.spellId)>>

\* The last call was reduceCooldown on a spell that was on cooldown.
ReducedOnCooldown ==
  /\ last.op = "reduceCooldown"
  /\ last.spellId \in DOMAIN last.pre

\* Remaining time of the spell when the last call began (a direct call does
\* not move the clock).
RemainingBefore == last.pre[last.spellId].expectedEnd - currentTimestamp

\* finishCooldown(spellId) (one charge) was applied to the record found.
OneChargeFinished ==
  /\ Len(last.notes) >= 1
  /\ last.notes[Len(last.notes)] = Finished(last.spellId)
  /\ IF last.pre[last.spellId].charges = 1
     THEN last.spellId \notin DOMAIN currentCooldowns
     ELSE /\ last.spellId \in DOMAIN currentCooldowns
          /\ currentCooldowns[last.spellId].charges
               = last.pre[last.spellId].charges - 1

\* C4 as stated: reduceCooldown(A, amount) with amount >= remaining time,
\* equality included, finishes the cooldown via finishCooldown and returns
\* the remaining time.
C4_ReduceFinishesAtOrAbove ==
  (ReducedOnCooldown /\ last.arg >= RemainingBefore)
    => /\ OneChargeFinished
       /\ last.ret = <<RemainingBefore>>

\* C4 amended: with amount strictly greater than the remaining time the call
\* finishes the cooldown via finishCooldown and returns the remaining time;
\* with amount equal to the remaining time it finishes nothing: the record
\* stays, with expectedEnd = now, nothing is published, and the amount (which
\* is the remaining time) is returned.
C4_ReduceFinishesAbove ==
  ReducedOnCooldown
    => /\ (last.arg > RemainingBefore
             => OneChargeFinished /\ last.ret = <<RemainingBefore>>)
       /\ (last.arg = RemainingBefore
             => /\ last.spellId \in DOMAIN currentCooldowns
                /\ currentCooldowns[last.spellId]
                     = [last.pre[last.spellId] EXCEPT !.expectedEnd = currentTimestamp]
                /\ last.notes = <<>>
                /\ last.ret = <<RemainingBefore>>)

C4_Witness ==
  /\ ReducedOnCooldown
  /\ last.arg > RemainingBefore
  /\ RemainingBefore > 0
  /\ last.spellId \notin DOMAIN currentCooldowns

\* The last call was finishCooldown(A) without resetAllCharges.
FinishedOne ==
  /\ last.op = "finishCooldown"
  /\ last.arg = 0
  /\ last.spellId \in DOMAIN last.pre

\* A timer reset just now: it ends one full duration from now, the duration
\* being the catalog's or any override.
FreshTimer(expectedEnd) ==
  \E d \in (Durations \cup Overrides) \ {0} : expectedEnd = currentTimestamp + d

\* C5 as stated: finishCooldown(A) on charges = 2 leaves A on cooldown with
\* charges = 1 and a freshly reset timer, whichever duration the cooldown was
\* started with; a finishCooldown(A) on the charges = 1 record deletes it.
C5_FinishResetsTimer ==
  FinishedOne
    => /\ (last.pre[last.spellId].charges = 2
             => /\ last.spellId \in DOMAIN currentCooldowns
                /\ currentCooldowns[last.spellId].charges = 1
                /\ FreshTimer(currentCooldowns[last.spellId].expectedEnd))
       /\ (last.pre[last.spellId].charges = 1
             => last.spellId \notin DOMAIN currentCooldowns)

\* C5 amended: finishCooldown(A) on charges = 2 leaves A on cooldown with
\* charges = 1; its timer is reset to now + catalog duration when the catalog
\* has a duration for A (also when the cooldown was started with an override)
\* and is left as it was when the catalog has none; a finishCooldown(A) on
\* the charges = 1 record deletes it.
C5_FinishRearmsFromCatalog ==
  FinishedOne
    => /\ (last.pre[last.spellId].charges = 2
             => /\ last.spellId \in DOMAIN currentCooldowns
                /\ currentCooldowns[last.spellId].charges = 1
                /\ currentCooldowns[last.spellId].start = last.pre[last.spellId].start
                /\ currentCooldowns[last.spellId].expectedEnd
                     = IF getExpectedCooldownDuration(last.spellId) # 0
                       THEN currentTimestamp + getExpectedCooldownDuration(last.spellId)
                       ELSE last.pre[last.spellId].expectedEnd)
       /\ (last.pre[last.spellId].charges = 1
             => last.spellId \notin DOMAIN currentCooldowns)

C5_Witness ==
  /\ FinishedOne
  /\ last.pre[last.spellId].charges = 2
  /\ getExpectedCooldownDuration(last.spellId) # 0
  /\ last.pre[last.spellId].expectedEnd
       # currentTimestamp + getExpectedCooldownDuration(last.spellId)
  /\ currentCooldowns[last.spellId].charges = 1

\* C6: isAvailable(A) returns true when A has no record, and with a record
\* returns true exactly when the configured max charges of A is strictly
\* greater than the record's charges; so a spell can be on cooldown and
\* available at once.
C6_AvailableIffSpareCharge ==
  last.op = "isAvailable"
    => last.ret = <<(\/ last.spellId \notin DOMAIN currentCooldowns
                     \/ getMaxCharges(last.spellId)
                          > currentCooldowns[last.spellId].charges)>>

C6_Witness ==
  /\ last.op = "isAvailable"
  /\ last.spellId \in DOMAIN currentCooldowns
  /\ last.ret = <<TRUE>>

\* C7: an event whose timestamp equals a record's expectedEnd leaves that
\* spell as it is (no finishCooldown); an event whose timestamp is
\* expectedEnd + 1 calls finishCooldown for it.
C7_SweepTieBreak ==
  last.op = "onAnyEvent"
    => \A spellId \in DOMAIN last.pre :
         /\ last.pre[spellId].expectedEnd = currentTimestamp
              => /\ spellId \in DOMAIN currentCooldowns
                 /\ currentCooldowns[spellId] = last.pre[spellId]
                 /\ ~Published(Finished(spellId))
         /\ last.pre[spellId].expectedEnd + 1 = currentTimestamp
              => /\ Published(Finished(spellId))
                 /\ IF last.pre[spellId].charges = 1
                    THEN spellId \notin DOMAIN currentCooldowns
                    ELSE /\ spellId \in DOMAIN currentCooldowns
                         /\ currentCooldowns[spellId].charges
                              = last.pre[spellId].charges - 1

C7_Witness ==
  /\ last.op = "onAnyEvent"
  /\ \E spellId \in DOMAIN last.pre :
       /\ last.pre[spellId].expectedEnd = currentTimestamp
       /\ spellId \in DOMAIN currentCooldowns
  /\ \E spellId \in DOMAIN last.pre :
       /\ last.pre[spellId].expectedEnd + 1 = currentTimestamp
       /\ Published(Finished(spellId))

\* C8: with X (spell 1) at max charges 2 and duration 1000, cast X at 0
\* gives charges = 1 and expectedEnd = 1000; cast X at 100 gives charges = 2
\* with expectedEnd still 1000; the generic event at 1001 leaves X on
\* cooldown with charges = 1, expectedEnd = 2001, and available.
C8_Scenario ==
  (catalog[1] = ScenarioConfig /\ scenario >= 1)
    => /\ isOnCooldown(currentCooldowns, 1)
       /\ scenario = 1
            => currentCooldowns[1] = [start |-> 0, expectedEnd |-> 1000, charges |-> 1]
       /\ scenario = 2
            => currentCooldowns[1] = [start |-> 0, expectedEnd |-> 1000, charges |-> 2]
       /\ scenario = 3
            => /\ currentCooldowns[1].charges = 1
               /\ currentCooldowns[1].expectedEnd = 2001
               /\ isAvailable(currentCooldowns, 1)

C8_Witness ==
  /\ catalog[1] = ScenarioConfig
  /\ scenario = 3
  /\ currentTimestamp = 1001
  /\ isOnCooldown(currentCooldowns, 1)

\* C9: a stream of cast events and generic events in non-decreasing timestamp
\* order never makes finishCooldown or refreshCooldown throw: the sweep and
\* the recovery path call them only on spells that have a record.
C9_ReplayNeverThrows == ~last.thrown

C9_Witness ==
  /\ last.op = "onCast"
  /\ last.retries >= 1
  /\ Published(Finished(last.spellId))
  /\ ~last.thrown

\* C10: every record of the store has charges >= 1, and charges <= M for a
\* spell whose configured max charge count M is >= 1.
C10_ChargesInRange ==
  \A spellId \in DOMAIN currentCooldowns :
    /\ currentCooldowns[spellId].charges >= 1
    /\ getMaxCharges(spellId) >= 1
         => currentCooldowns[spellId].charges <= getMaxCharges(spellId)

C10_Witness ==
  /\ last.op = "finishCooldown"
  /\ ~last.thrown
  /\ last.spellId \in DOMAIN currentCooldowns
  /\ last.pre[last.spellId].charges = getMaxCharges(last.spellId)
  /\ currentCooldowns[last.spellId].charges = 1

\* C11: finishCooldown(A) and refreshCooldown(A) called while A has no record
\* throw, leave the whole store as it was and publish nothing.
C11_InvalidStateThrows ==
  (/\ last.op \in {"finishCooldown", "refreshCooldown"}
   /\ last.spellId \notin DOMAIN last.pre)
    => /\ last.thrown
       /\ currentCooldowns = last.pre
       /\ last.notes = <<>>

C11_Witness ==
  /\ last.op = "finishCooldown"
  /\ last.spellId \notin DOMAIN last.pre
  /\ last.thrown
  /\ currentCooldowns # NoCooldowns

\* C13: startCooldown(A) for which no duration resolves changes nothing,
\* publishes nothing and does not throw, in every state of A.
C13_NoDurationNoOp ==
  (IsStart /\ ResolvedDuration = 0)
    => /\ currentCooldowns = last.pre
       /\ last.notes = <<>>
       /\ ~last.thrown
       /\ last.retries = 0

C13_Witness ==
  /\ IsStart
  /\ ResolvedDuration = 0
  /\ last.spellId \in DOMAIN last.pre
  /\ ~isAvailable(last.pre, last.spellId)
  /\ currentCooldowns = last.pre

\* C14: reduceCooldown(A, amount), amount >= 0, returns null and changes
\* nothing when A has no record; otherwise it returns min(amount, remaining)
\* and, when it does not finish the cooldown, lowers expectedEnd by exactly
\* amount and leaves start and charges (and every other record) alone.
C14_ReduceConsumesMin ==
  last.op = "reduceCooldown"
    => IF last.spellId \notin DOMAIN last.pre
       THEN /\ last.ret = <<>>
            /\ currentCooldowns = last.pre
            /\ last.notes = <<>>
       ELSE /\ last.ret = <<(IF last.arg < RemainingBefore
                             THEN last.arg ELSE RemainingBefore)>>
            /\ last.arg <= RemainingBefore
                 => /\ currentCooldowns
                         = [last.pre EXCEPT ![last.spellId].expectedEnd = @ - last.arg]
                    /\ last.notes = <<>>

C14_Witness ==
  /\ ReducedOnCooldown
  /\ last.arg > 0
  /\ last.arg < RemainingBefore
  /\ last.ret = <<last.arg>>

\* C16: refreshCooldown(A) on a spell that is on cooldown, with a duration,
\* sets expectedEnd = now + duration, leaves start, charges and every other
\* record alone and publishes one refreshcooldown; with no duration it
\* changes nothing and publishes nothing.
C16_RefreshSetsExpectedEnd ==
  (last.op = "refreshCooldown" /\ last.spellId \in DOMAIN last.pre)
    => /\ ~last.thrown
       /\ IF ResolvedDuration # 0
          THEN /\ currentCooldowns
                    = [last.pre EXCEPT ![last.spellId].expectedEnd
                                         = currentTimestamp + ResolvedDuration]
               /\ last.notes = <<Note("refreshcooldown", last.spellId)>>
          ELSE /\ currentCooldowns = last.pre
               /\ last.notes = <<>>

C16_Witness ==
  /\ last.op = "refreshCooldown"
  /\ last.spellId \in DOMAIN last.pre
  /\ ResolvedDuration # 0
  /\ last.pre[last.spellId].start < currentTimestamp
  /\ currentCooldowns[last.spellId].expectedEnd # last.pre[last.spellId].expectedEnd
  /\ \E other \in DOMAIN currentCooldowns : other # last.spellId

\* C17: the recovery of startCooldown retries once and then ends: after the
\* forced finishCooldown the retried call never finds the spell saturated
\* again, whatever the max charge count (0 included).
C17_OneRetry == last.retries <= 1

C17_Witness ==
  /\ IsStart
  /\ last.retries = 1
  /\ getMaxCharges(last.spellId) = 0

\* C20: startCooldown, finishCooldown, refreshCooldown, reduceCooldown and
\* a cast, applied to A, leave the record of every other spell as it is; the
\* queries leave the whole store as it is.
C20_OtherSpellsUntouched ==
  /\ last.op \in {"startCooldown", "finishCooldown", "refreshCooldown",
                  "reduceCooldown", "onCast"}
       => \A other \in Abilities \ {last.spellId} :
            RecordOf(currentCooldowns, other) = RecordOf(last.pre, other)
  /\ last.op \in {"isAvailable", "isOnCooldown", "cooldownRemaining"}
       => currentCooldowns = last.pre

C20_Witness ==
  /\ last.op = "finishCooldown"
  /\ last.arg = 1
  /\ last.spellId \in DOMAIN last.pre
  /\ last.spellId \notin DOMAIN currentCooldowns
  /\ \E other \in DOMAIN currentCooldowns : other # last.spellId

\* The event's timestamp is past the record's expectedEnd by more than one
\* full duration, whichever duration counts as the spell's: the catalog's or
\* an override.
FarPast(spellId) ==
  \A d \in ({getExpectedCooldownDuration(spellId)} \cup Overrides) \ {0} :
    currentTimestamp > last.pre[spellId].expectedEnd + d

\* C18 as stated: a record with charges = k >= 2 whose expectedEnd is older
\* than the event by more than one full duration leaves the sweep with
\* charges = k - 1 and a timer that ends one full duration from now.
C18_SweepRearmsOneCharge ==
  last.op = "onAnyEvent"
    => \A spellId \in DOMAIN last.pre :
         (last.pre[spellId].charges >= 2 /\ FarPast(spellId))
           => /\ spellId \in DOMAIN currentCooldowns
              /\ currentCooldowns[spellId].charges = last.pre[spellId].charges - 1
              /\ FreshTimer(currentCooldowns[spellId].expectedEnd)

\* C18 amended: one sweep finishes at most one charge per spell, however far
\* the event is past expectedEnd: an expired record with charges = k >= 2
\* leaves the sweep with charges = k - 1, its start as it was, and
\* expectedEnd = now + catalog duration when the catalog has a duration for
\* the spell, expectedEnd as it was when the catalog has none; an expired
\* record with charges = 1 is deleted; a record that is not expired is left
\* as it is.
C18_SweepFinishesOneCharge ==
  last.op = "onAnyEvent"
    => \A spellId \in DOMAIN last.pre :
         IF ~expired(last.pre[spellId], currentTimestamp)
         THEN RecordOf(currentCooldowns, spellId) = <<last.pre[spellId]>>
         ELSE IF last.pre[spellId].charges = 1
              THEN spellId \notin DOMAIN currentCooldowns
              ELSE RecordOf(currentCooldowns, spellId)
                     = <<[start |-> last.pre[spellId].start,
                          charges |-> last.pre[spellId].charges - 1,
                          expectedEnd |->
                            IF getExpectedCooldownDuration(spellId) # 0
                            THEN currentTimestamp + getExpectedCooldownDuration(spellId)
                            ELSE last.pre[spellId].expectedEnd]>>

C18_Witness ==
  /\ last.op = "onAnyEvent"
  /\ \E spellId \in DOMAIN last.pre :
       /\ last.pre[spellId].charges >= 3
       /\ FarPast(spellId)
       /\ getExpectedCooldownDuration(spellId) # 0
       /\ currentCooldowns[spellId].charges = last.pre[spellId].charges - 1

\* C12: a spell that is never passed to startCooldown, directly or by a
\* cast, is never on cooldown and its cooldownRemaining is null in every
\* reachable state, whatever is done to the other spells (and whatever other
\* operation is tried on it).
C12_NeverStartedIsFree ==
  \A spellId \in UnstartedAbilities :
    /\ ~isOnCooldown(currentCooldowns, spellId)
    /\ cooldownRemaining(currentCooldowns, currentTimestamp, spellId) = <<>>
    /\ (last.op = "isOnCooldown" /\ last.spellId = spellId) => last.ret = <<FALSE>>
    /\ (last.op = "cooldownRemaining" /\ last.spellId = spellId) => last.ret = <<>>

C12_Witness ==
  /\ last.op = "cooldownRemaining"
  /\ last.spellId \in UnstartedAbilities
  /\ last.ret = <<>>
  /\ \E other \in DOMAIN currentCooldowns :
       /\ currentCooldowns[other].charges >= 2
       /\ currentTimestamp > currentCooldowns[other].expectedEnd

\* The notifications of the last call, against the store it found and left:
\* a startcooldown of A stands for a record created by this call, where A
\* had none or after a finishcooldown of A; a startcooldowncharge of A
\* stands for a record that was there and stays; a record that is gone has
\* its finishcooldown.
NotesMatchStore ==
  /\ \A i \in 1..Len(last.notes) :
       LET spellId == last.notes[i][2]
       IN  /\ last.notes[i][1] = "startcooldown"
                => /\ \/ spellId \notin DOMAIN last.pre
                      \/ \E j \in 1..(i - 1) : last.notes[j] = Finished(spellId)
                   /\ spellId \in DOMAIN currentCooldowns
                   /\ currentCooldowns[spellId].charges = 1
                   /\ currentCooldowns[spellId].start = currentTimestamp
           /\ last.notes[i][1] = "startcooldowncharge"
                => /\ spellId \in DOMAIN last.pre
                   /\ spellId \in DOMAIN currentCooldowns
                   /\ currentCooldowns[spellId].start = last.pre[spellId].start
  /\ \A spellId \in DOMAIN last.pre :
       spellId \notin DOMAIN currentCooldowns => Published(Finished(spellId))

\* A step publishes startcooldown of A only when, in the stream so far, the
\* last startcooldown of A has been followed by a finishcooldown of A.
StartsAreSeparated ==
  \A i \in 1..Len(last'.notes) :
    last'.notes[i][1] = "startcooldown"
      => last'.notes[i][2]
           \notin StartedAfter(started, SubSeq(last'.notes, 1, i - 1))

\* C19: in the notification stream of any run, startcooldown of A is
\* published only when A had no record, startcooldowncharge of A only when A
\* had one, two startcooldown of A are separated by a finishcooldown of A,
\* and every deletion of A's record has its finishcooldown of A.
C19_NotificationStream == [][StartsAreSeparated /\ NotesMatchStore']_vars

C19_Witness ==
  /\ IsStart
  /\ last.spellId \in DOMAIN last.pre
  /\ last.notes = <<Finished(last.spellId), Note("startcooldown", last.spellId)>>
  /\ last.spellId \in started
  /\ \E other \in started : other # last.spellId

\* Once the casts are over, every spell on cooldown is free later on: no
\* record is created any more, so the store is empty from some event on.
DrainsToFree == Draining ~> (currentCooldowns = NoCooldowns)

\* C15 as stated: once the casts are over and events with strictly
\* increasing timestamps keep arriving, every spell on cooldown is free later
\* on, each event taking at most one charge of a spell and re-arming what is
\* left for a full duration from now.
C15_DrainRearmsFullDuration ==
  /\ DrainsToFree
  /\ [][(Draining' /\ last'.op = "onAnyEvent")
          => \A spellId \in DOMAIN currentCooldowns :
               \/ RecordOf(currentCooldowns', spellId) = <<currentCooldowns[spellId]>>
               \/ /\ currentCooldowns[spellId].charges = 1
                  /\ spellId \notin DOMAIN currentCooldowns'
               \/ /\ spellId \in DOMAIN currentCooldowns'
                  /\ currentCooldowns'[spellId].charges
                       = currentCooldowns[spellId].charges - 1
                  /\ \E d \in (Durations \cup Overrides) \ {0} :
                       currentCooldowns'[spellId].expectedEnd = currentTimestamp' + d]_vars

\* C15 amended: once the casts and every other call are over and events
\* with strictly increasing timestamps keep arriving, every spell on cooldown
\* is free later on; each event takes at most one charge of a spell, and what
\* is left is re-armed to now + catalog duration when the catalog has a
\* duration for the spell and keeps its old expectedEnd when it has none (so
\* the next event takes the next charge).
C15_DrainsChargeByCharge ==
  /\ DrainsToFree
  /\ [][(Draining' /\ last'.op = "onAnyEvent")
          => \A spellId \in DOMAIN currentCooldowns :
               \/ RecordOf(currentCooldowns', spellId) = <<currentCooldowns[spellId]>>
               \/ /\ currentCooldowns[spellId].charges = 1
                  /\ spellId \notin DOMAIN currentCooldowns'
               \/ /\ spellId \in DOMAIN currentCooldowns'
                  /\ currentCooldowns'[spellId].charges
                       = currentCooldowns[spellId].charges - 1
                  /\ currentCooldowns'[spellId].expectedEnd
                       = IF getExpectedCooldownDuration(spellId) # 0
                         THEN currentTimestamp' + getExpectedCooldownDuration(spellId)
                         ELSE currentCooldowns[spellId].expectedEnd]_vars

\* The last charge of a record that was re-armed after the casts were over
\* has just been taken: nothing is on cooldown any more.
C15_Witness ==
  /\ Draining
  /\ last.op = "onAnyEvent"
  /\ currentCooldowns = NoCooldowns
  /\ \E spellId \in DOMAIN last.pre :
       /\ last.pre[spellId].charges = 1
       /\ last.pre[spellId].start <= MaxTime
       /\ last.pre[spellId].expectedEnd > MaxTime + MaxDuration + MaxOverride

====
